---- MODULE Spec2Model ----
(***************************************************************************)
(* A model of minimake (src/minimake.c): the tokenizer, the parser, the    *)
(* dependency resolver and the executor, each as a state machine over the  *)
(* memory the C code reads and writes.                                     *)
(*                                                                         *)
(* Memory conventions.  The source buffer is a sequence of bytes (one-     *)
(* character strings), 1-based: a C pointer buffer + k is the index k + 1. *)
(* The buffer proper is followed by its NUL terminator and then by the     *)
(* bytes that happen to lie behind it in memory (`beyond`); an access past *)
(* the last mapped byte is a fault.  A string view (mm_sv) is a record     *)
(* [data, size] with data an index into that memory and data = 0 for NULL. *)
(* Allocation is assumed to succeed.                                       *)
(***************************************************************************)
EXTENDS Integers, Sequences, FiniteSets, TLC

VARIABLES
    mem,          \* buffer ++ <<NUL>> ++ the bytes behind the terminator
    size,         \* strlen(buffer)
    p,            \* minimake_tokenize: the scan pointer (index into mem)
    line,         \* minimake_tokenize: line counter
    column,       \* minimake_tokenize: column counter
    tokens,       \* the token array, as the sequence of the n_tokens tokens written
    max_tokens,   \* capacity of the token array
    read_hi,      \* highest index of mem the tokenizer has read
    tok_pc,       \* "idle" | "scan" | "ok" | "fault"
    rules,        \* m->rules: the rule slots, slot j of the C array at rules[j + 1]
    n_rules,      \* m->n_rules
    rules_capacity, \* minimake_parse: rules_capacity
    i,            \* minimake_parse: index of the next token
    parse_result, \* the minimake_result minimake_parse returns
    parse_ub,     \* the stores minimake_parse has made outside the object they belong to
    parse_pc,     \* "idle" | "tokenize" | "loop" | "commands" | "done" | "crashed"
    target,       \* main: the requested target, a string view
    chain,        \* minimake_resolve: the n_chain entries written to the chain array
    chain_capacity, \* minimake_resolve: chain_capacity
    resolve_i,    \* minimake_resolve: the index i of the outer loop
    resolve_result, \* the minimake_result minimake_resolve returns
    resolve_ub,   \* the reads minimake_resolve has made outside the chain array
    resolve_pc,   \* "idle" | "loop" | "done" | "crashed"
    fs0,          \* the file system when minimake_execute_chain is entered
    fs,           \* the file system: name -> modification time, Missing or NoAccess
    now,          \* the clock, in seconds
    exec_i,       \* minimake_execute_chain: the index i of the walk
    cmd,          \* minimake_execute_chain: the bytes of the buffer *cmd
    make,         \* the call of minimake_make in progress: its j, k, found and caller
    log,          \* the calls of system() made so far: the rule and command run, the
                  \* string passed, the exit status, whether the target was touched
    exec_result,  \* the minimake_result minimake_execute_chain returns
    exec_ub,      \* the accesses the executor has made outside the object they belong to
    exec_pc       \* "idle" | "walk" | "make" | "done" | "crashed"

tokvars == <<mem, size, p, line, column, tokens, max_tokens, read_hi, tok_pc>>
parsevars == <<rules, n_rules, rules_capacity, i, parse_result, parse_ub, parse_pc>>

resolvevars ==
    <<target, chain, chain_capacity, resolve_i, resolve_result, resolve_ub, resolve_pc>>
execvars == <<fs0, fs, now, exec_i, cmd, make, log, exec_result, exec_ub, exec_pc>>
latervars == <<resolvevars, execvars>>

vars == <<tokvars, parsevars, resolvevars, execvars>>

----------------------------------------------------------------------------
(* Bounds of the model. *)

MaxSrcLen == 3
MaxBeyond == 1

(* Program constants. *)

InitMaxTokens == 1024

----------------------------------------------------------------------------
(* Bytes. *)

NUL == "NUL"
NL == "\n"
TAB == "\t"
COLON == ":"
HASH == "#"
SP == " "

SrcBytes == {NL, TAB, COLON, HASH, SP, "a"}
MemBytes == SrcBytes \cup {NUL}

RECURSIVE SeqsUpTo(_, _)
SeqsUpTo(S, n) ==
    IF n = 0 THEN {<<>>}
    ELSE LET shorter == SeqsUpTo(S, n - 1)
         IN  shorter \cup {Append(s, x) : s \in {t \in shorter : Len(t) = n - 1}, x \in S}

Max(a, b) == IF a >= b THEN a ELSE b

(* The message of a minimake_result: its fixed text and, for
   MINIMAKE_ERR_EXPECTED, what the format arguments were. *)
Msg(text) ==
    [text |-> text, expected |-> "", line |-> 0, column |-> 0, got |-> "",
     start |-> 0, end |-> 0]

minimake_result_ok == [ok |-> TRUE, message |-> Msg("success")]
Failure(message) == [ok |-> FALSE, message |-> message]

----------------------------------------------------------------------------
(* minimake_tokenize *)

TOK_WORD == "word"
TOK_COLON == "colon"
TOK_NEWLINE == "newline"
TOK_COMMAND == "command"

(* A slot of the token array as memset leaves it (line 149). *)
ZeroToken == [type |-> TOK_WORD, start |-> 0, end |-> 0, line |-> 0, column |-> 0]

(* The inner while loops: advance q until the byte at q is in `stop`.  The
   result is Len(m) + 1 when the scan runs off the mapped memory. *)
ScanTo(m, q, stop) ==
    CHOOSE r \in q..(Len(m) + 1) :
        /\ r > Len(m) \/ m[r] \in stop
        /\ \A k \in q..(r - 1) : m[k] \notin stop

CommentStop == {NUL, NL}
CommandStop == {NL}
WordStop == {NUL, SP, TAB, NL, COLON}

(* One iteration of the for loop of minimake_tokenize, its condition `*p`
   included, on the tokenizer state s (a record of the locals). *)
TokIter(m, s) ==
    IF s.p > Len(m)
    THEN [s EXCEPT !.pc = "fault", !.read_hi = s.p]
    ELSE IF m[s.p] = NUL
    THEN [s EXCEPT !.pc = "ok", !.read_hi = Max(s.read_hi, s.p)]
    ELSE
    LET c == m[s.p]
        col1 == IF c = NL THEN 1 ELSE s.column + 1
        line1 == IF c = NL THEN s.line + 1 ELSE s.line
        mk(type, from, to) ==
            [type |-> type, start |-> from, end |-> to, line |-> s.line, column |-> s.column]
        grow(n) == IF n = s.max_tokens THEN (s.max_tokens * 3) \div 2 ELSE s.max_tokens
        emit(tok, np, ncol, hi) ==
            [s EXCEPT !.tokens = Append(s.tokens, tok), !.p = np, !.line = line1,
                      !.column = ncol, !.read_hi = Max(s.read_hi, hi),
                      !.max_tokens = grow(Len(s.tokens) + 1)]
        skip(np, ncol, hi) ==
            [s EXCEPT !.p = np, !.line = line1, !.column = ncol,
                      !.read_hi = Max(s.read_hi, hi)]
        fault(q) == [s EXCEPT !.pc = "fault", !.read_hi = q]
    IN  IF c = NL THEN emit(mk(TOK_NEWLINE, s.p, s.p + 1), s.p + 1, col1, s.p)
        ELSE IF c = COLON THEN emit(mk(TOK_COLON, s.p, s.p + 1), s.p + 1, col1, s.p)
        ELSE IF c = HASH THEN
            LET q == ScanTo(m, s.p, CommentStop)
            IN  IF q > Len(m) THEN fault(q)
                ELSE IF m[q] = NL THEN skip(q, col1 - 1 + (q - s.p), q)
                ELSE skip(q + 1, col1 - 1 + (q - s.p), q)
        ELSE IF c = SP THEN skip(s.p + 1, col1, s.p)
        ELSE IF c = TAB THEN
            LET q == ScanTo(m, s.p, CommandStop)
            IN  IF q > Len(m) THEN fault(q)
                ELSE emit(mk(TOK_COMMAND, s.p + 1, q), q, col1 + (q - s.p), q)
        ELSE
            LET q == ScanTo(m, s.p, WordStop)
            IN  IF q > Len(m) THEN fault(q)
                ELSE emit(mk(TOK_WORD, s.p, q), q, col1 - 1 + (q - s.p), q)

(* The locals of minimake_tokenize on entry (lines 140-163). *)
TokStart ==
    [p |-> 1, line |-> 1, column |-> 1, tokens |-> <<>>,
     max_tokens |-> InitMaxTokens, read_hi |-> 0, pc |-> "scan"]

(* minimake_tokenize run to its end. *)
RECURSIVE TokRun(_, _)
TokRun(m, s) == IF s.pc # "scan" THEN s ELSE TokRun(m, TokIter(m, s))

(* The variables of the resolver and the executor before main reaches them. *)
StagesIdle ==
    /\ chain = <<>>
    /\ chain_capacity = 0
    /\ resolve_i = 0
    /\ resolve_result = minimake_result_ok
    /\ resolve_ub = {}
    /\ resolve_pc = "idle"
    /\ fs0 = [n \in {} |-> 0]
    /\ fs = [n \in {} |-> 0]
    /\ now = 0
    /\ exec_i = 0
    /\ cmd = <<>>
    /\ make = [j |-> 0, k |-> 0, why |-> "none"]
    /\ log = <<>>
    /\ exec_result = minimake_result_ok
    /\ exec_ub = {}
    /\ exec_pc = "idle"

BuildIdle ==
    /\ target = [data |-> 0, size |-> 0]
    /\ StagesIdle

(* The variables of the later stages while only the tokenizer runs. *)
ParseIdle ==
    /\ rules = <<>>
    /\ n_rules = 0
    /\ rules_capacity = 0
    /\ i = 0
    /\ parse_result = minimake_result_ok
    /\ parse_ub = {}
    /\ parse_pc = "idle"
    /\ BuildIdle

TokInit ==
    /\ \E b \in SeqsUpTo(SrcBytes, MaxSrcLen), g \in SeqsUpTo(MemBytes, MaxBeyond) :
          /\ mem = b \o <<NUL>> \o g
          /\ size = Len(b)
    /\ p = TokStart.p
    /\ line = TokStart.line
    /\ column = TokStart.column
    /\ tokens = TokStart.tokens
    /\ max_tokens = TokStart.max_tokens
    /\ read_hi = TokStart.read_hi
    /\ tok_pc = TokStart.pc
    /\ ParseIdle

TokState ==
    [p |-> p, line |-> line, column |-> column, tokens |-> tokens,
     max_tokens |-> max_tokens, read_hi |-> read_hi, pc |-> tok_pc]

TokStep ==
    /\ tok_pc = "scan"
    /\ LET t == TokIter(mem, TokState)
       IN  /\ p' = t.p
           /\ line' = t.line
           /\ column' = t.column
           /\ tokens' = t.tokens
           /\ max_tokens' = t.max_tokens
           /\ read_hi' = t.read_hi
           /\ tok_pc' = t.pc
    /\ UNCHANGED <<mem, size>>
    /\ UNCHANGED <<parsevars, latervars>>

TokNext == TokStep

SpecTok == TokInit /\ [][TokNext]_vars

----------------------------------------------------------------------------
(* minimake_parse *)

MaxDependencies == 64
CommandsLen == 32
MaxCommands == 128
InitRulesCapacity == 5

NullSv == [data |-> 0, size |-> 0]
(* A string view read from memory the program never initialised. *)
GarbageSv == [data |-> -1, size |-> -1]

(* A minimake_rule.  dependencies and commands hold the entries of the two
   arrays that have been stored; the other entries are as memset left them. *)
ZeroRule ==
    [target |-> NullSv, dependencies |-> <<>>, n_dependencies |-> 0,
     commands |-> <<>>, n_commands |-> 0]
(* A slot of memory that was never zeroed: its counters and entries are
   whatever the heap held. *)
GarbageRule ==
    [target |-> GarbageSv, dependencies |-> <<GarbageSv>>, n_dependencies |-> 1,
     commands |-> <<GarbageSv>>, n_commands |-> 1]

(* tokens[j] as the parser reads it.  j = n_tokens is the slot behind the
   last token, zeroed by the memset of minimake_tokenize. *)
Tok(toks, j) == IF j < Len(toks) THEN toks[j + 1] ELSE ZeroToken

tok_expect(toks, j, type) ==
    IF j >= Len(toks) THEN [sv |-> NullSv, i |-> j]
    ELSE IF toks[j + 1].type = type
    THEN [sv |-> [data |-> toks[j + 1].start, size |-> toks[j + 1].end - toks[j + 1].start],
          i |-> j + 1]
    ELSE [sv |-> NullSv, i |-> j]

MINIMAKE_ERR_EXPECTED(token, expected) ==
    IF token.line = 0
    THEN [Msg("unexpected end of file") EXCEPT !.expected = expected]
    ELSE [text |-> "expected", expected |-> expected, line |-> token.line,
          column |-> token.column, got |-> token.type,
          start |-> token.start, end |-> token.end]

(* while (tokens[i].type == MINIMAKE_TOK_NEWLINE && i < n_tokens) ++i; *)
SkipNewlines(toks, j) ==
    CHOOSE r \in j..Max(j, Len(toks)) :
        /\ ~(Tok(toks, r).type = TOK_NEWLINE /\ r < Len(toks))
        /\ \A k \in j..(r - 1) : Tok(toks, k).type = TOK_NEWLINE

(* The dependency loop (lines 487-495) on the slot's array and counter. *)
RECURSIVE TakeDependencies(_, _, _, _)
TakeDependencies(toks, j, deps, n) ==
    IF Tok(toks, j).type = TOK_WORD /\ j < Len(toks)
    THEN IF n = MaxDependencies
         THEN [i |-> j, dependencies |-> deps, n_dependencies |-> n, err |-> TRUE]
         ELSE LET t == tok_expect(toks, j, TOK_WORD)
              IN  TakeDependencies(toks, t.i, Append(deps, t.sv), n + 1)
    ELSE [i |-> j, dependencies |-> deps, n_dependencies |-> n, err |-> FALSE]

(* A check that asks for a command token instead. *)
MissingCommands_NoCommand(toks, j) == Tok(toks, j).type # TOK_COMMAND

(* Line 504: the token behind the dependency line's newline is itself a
   newline. *)
MissingCommands(toks, j) == Tok(toks, j).type = TOK_NEWLINE

(* The body of the for loop of minimake_parse from line 466 to line 508, for
   the rule slot `slot`: what it leaves in the slot, where it leaves i, and
   how it ends: "break" (line 471), "error" (goto cleanup) or "commands" (it
   reaches the command loop).  written says whether the slot was stored to. *)
ParseHeader(toks, i0, slot) ==
    LET i1 == SkipNewlines(toks, i0)
        out(st, j, rule, msg) ==
            [status |-> st, i |-> j, rule |-> rule, message |-> msg,
             written |-> st # "break"]
    IN
    IF i1 >= Len(toks) THEN out("break", i1, slot, Msg("success"))
    ELSE
    LET name == tok_expect(toks, i1, TOK_WORD)
        r1 == [slot EXCEPT !.target = name.sv]
    IN
    IF name.sv.data = 0
    THEN out("error", name.i, r1, MINIMAKE_ERR_EXPECTED(Tok(toks, name.i), "target"))
    ELSE
    LET colon == tok_expect(toks, name.i, TOK_COLON)
    IN
    IF colon.sv.data = 0
    THEN out("error", colon.i, r1, MINIMAKE_ERR_EXPECTED(Tok(toks, colon.i), "colon"))
    ELSE
    LET d == TakeDependencies(toks, colon.i, slot.dependencies, slot.n_dependencies)
        r2 == [r1 EXCEPT !.dependencies = d.dependencies, !.n_dependencies = d.n_dependencies]
    IN
    IF d.err THEN out("error", d.i, r2, Msg("too many dependencies"))
    ELSE
    LET newline == tok_expect(toks, d.i, TOK_NEWLINE)
    IN
    IF newline.sv.data = 0
    THEN out("error", newline.i, r2, MINIMAKE_ERR_EXPECTED(Tok(toks, newline.i), "newline"))
    ELSE IF MissingCommands(toks, newline.i)
    THEN out("error", newline.i, r2, MINIMAKE_ERR_EXPECTED(Tok(toks, newline.i), "command(s)"))
    ELSE out("commands", newline.i, r2, Msg("success"))

(* The array after the "quick and dirty realloc" (lines 452-462): the old
   slots, then what memcpy read behind the old allocation: the rule the
   parser itself had stored there if the heap kept it (keep), `fill`
   otherwise. *)
GrownRules(old, old_capacity, new_capacity, keep, fill) ==
    [j \in 1..new_capacity |->
        IF j <= old_capacity THEN old[j]
        ELSE IF j <= Len(old) /\ keep THEN old[j]
        ELSE fill]

(* The rule array with slot n (0-based) set; a slot behind the array's end
   is the memory that follows the allocation. *)
StoreRule(arr, n, rule) ==
    IF n < Len(arr) THEN [arr EXCEPT ![n + 1] = rule] ELSE Append(arr, rule)

(* What undefined behaviour may do.  fill: the content of memory the program
   reads without having written it; keep: whether a rule stored behind the
   array survives the next allocation; crash: whether the process dies at an
   out-of-bounds store or at an allocation on the heap it has overwritten. *)
Choices == [fill : {ZeroRule, GarbageRule}, keep : BOOLEAN, crash : BOOLEAN]
NoChoice == [fill |-> ZeroRule, keep |-> TRUE, crash |-> FALSE]

(* The locals of minimake_parse when the for loop is entered (lines 441-450). *)
ParseStart ==
    [rules |-> [j \in 1..InitRulesCapacity |-> ZeroRule], n_rules |-> 0,
     rules_capacity |-> InitRulesCapacity, i |-> 0, result |-> minimake_result_ok,
     ub |-> {}, pc |-> "loop"]

(* The for loop of minimake_parse from its condition to the command loop
   (lines 450-508). *)
ParseHead(toks, s, ch) ==
    IF s.i >= Len(toks) THEN [s EXCEPT !.pc = "done"]
    ELSE
    LET grown == s.n_rules > s.rules_capacity
        cap == IF grown THEN s.rules_capacity * 2 ELSE s.rules_capacity
        arr == IF grown THEN GrownRules(s.rules, s.rules_capacity, cap, ch.keep, ch.fill)
               ELSE s.rules
        inside == s.n_rules < cap
        slot == IF s.n_rules < Len(arr) THEN arr[s.n_rules + 1] ELSE ch.fill
        r == ParseHeader(toks, s.i, slot)
        ub == IF r.written /\ ~inside
              THEN {[kind |-> "rule", index |-> s.n_rules, limit |-> cap]} ELSE {}
    IN  IF ch.crash /\ (grown \/ ub # {})
        THEN [s EXCEPT !.pc = "crashed", !.ub = s.ub \cup ub, !.rules_capacity = cap]
        ELSE [s EXCEPT !.rules = IF r.written THEN StoreRule(arr, s.n_rules, r.rule) ELSE arr,
                       !.rules_capacity = cap,
                       !.i = r.i,
                       !.ub = s.ub \cup ub,
                       !.result = IF r.status = "error" THEN Failure(r.message) ELSE s.result,
                       !.pc = IF r.status = "commands" THEN "commands" ELSE "done"]

(* The command loop (lines 509-523), one iteration, and the end of the for
   loop's body (++m->n_rules).  A store to commands[n] with n >= CommandsLen
   lies outside the array, in the rule's n_commands and in the slot behind. *)
ParseCommand(toks, s, ch) ==
    LET rule == s.rules[s.n_rules + 1]
        n == rule.n_commands
    IN
    IF ~(Tok(toks, s.i).type = TOK_COMMAND /\ s.i < Len(toks))
    THEN [s EXCEPT !.n_rules = s.n_rules + 1, !.pc = "loop"]
    ELSE IF n = MaxCommands
    THEN [s EXCEPT !.result = Failure(Msg("too many commands")), !.pc = "done"]
    ELSE
    LET t == tok_expect(toks, s.i, TOK_COMMAND)
        nl == tok_expect(toks, t.i, TOK_NEWLINE)
        inside == n < CommandsLen
        ub == IF inside THEN {}
              ELSE {[kind |-> "command", index |-> n, limit |-> CommandsLen]}
        stored == [rule EXCEPT !.commands = IF inside THEN Append(rule.commands, t.sv)
                                             ELSE rule.commands,
                               !.n_commands = n + 1]
        arr == [s.rules EXCEPT ![s.n_rules + 1] = stored]
        spilled == IF ~inside /\ s.n_rules + 1 < Len(arr)
                   THEN [arr EXCEPT ![s.n_rules + 2] = GarbageRule] ELSE arr
    IN  IF ch.crash /\ ~inside
        THEN [s EXCEPT !.pc = "crashed", !.ub = s.ub \cup ub]
        ELSE [s EXCEPT !.rules = spilled, !.i = nl.i, !.ub = s.ub \cup ub]

ParseStep(toks, s, ch) ==
    IF s.pc = "loop" THEN ParseHead(toks, s, ch)
    ELSE IF s.pc = "commands" THEN ParseCommand(toks, s, ch)
    ELSE s

ParseState ==
    [rules |-> rules, n_rules |-> n_rules, rules_capacity |-> rules_capacity, i |-> i,
     result |-> parse_result, ub |-> parse_ub, pc |-> parse_pc]

SetParseState(s) ==
    /\ rules' = s.rules
    /\ n_rules' = s.n_rules
    /\ rules_capacity' = s.rules_capacity
    /\ i' = s.i
    /\ parse_result' = s.result
    /\ parse_ub' = s.ub
    /\ parse_pc' = s.pc

(* Lines 436-448: minimake_tokenize has returned; the rule array is
   allocated.  A tokenizer that ran off the mapped memory ends the process. *)
ParseBegin ==
    /\ parse_pc = "tokenize"
    /\ tok_pc # "scan"
    /\ IF tok_pc = "ok"
       THEN SetParseState(ParseStart)
       ELSE /\ parse_pc' = "crashed"
            /\ UNCHANGED <<rules, n_rules, rules_capacity, i, parse_result, parse_ub>>
    /\ UNCHANGED <<tokvars, latervars>>

(* The for loop's condition fails: minimake_parse returns its result. *)
ParseReturn ==
    /\ parse_pc = "loop"
    /\ i >= Len(tokens)
    /\ SetParseState(ParseHead(tokens, ParseState, NoChoice))
    /\ UNCHANGED <<tokvars, latervars>>

ParseRule ==
    /\ parse_pc = "loop"
    /\ i < Len(tokens)
    /\ \E ch \in Choices : SetParseState(ParseHead(tokens, ParseState, ch))
    /\ UNCHANGED <<tokvars, latervars>>

ParseCommandLine ==
    /\ parse_pc = "commands"
    /\ Tok(tokens, i).type = TOK_COMMAND /\ i < Len(tokens)
    /\ \E ch \in {c \in Choices : c.keep /\ c.fill = ZeroRule} :
          SetParseState(ParseCommand(tokens, ParseState, ch))
    /\ UNCHANGED <<tokvars, latervars>>

ParseRuleEnd ==
    /\ parse_pc = "commands"
    /\ ~(Tok(tokens, i).type = TOK_COMMAND /\ i < Len(tokens))
    /\ SetParseState(ParseCommand(tokens, ParseState, NoChoice))
    /\ UNCHANGED <<tokvars, latervars>>

ParseNext ==
    \/ TokStep
    \/ ParseBegin
    \/ ParseRule
    \/ ParseCommandLine
    \/ ParseRuleEnd
    \/ ParseReturn

(* The rule files minimake_parse is run on. *)
MaxLines == 4
MaxCmdLines == 130
MaxRuleLines == 12
MaxDepWords == 66

Rep(s, n) == [k \in 1..(n * Len(s)) |-> s[((k - 1) % Len(s)) + 1]]

RECURSIVE Lines(_)
Lines(ls) == IF ls = <<>> THEN <<>> ELSE Head(ls) \o <<NL>> \o Lines(Tail(ls))

LineKinds ==
    { <<>>, <<"a", COLON>>, <<"a", COLON, SP, "b">>, <<TAB, "c">>, <<"a">> }

(* Up to MaxLines lines, the last with or without its newline. *)
ShortFiles ==
    LET texts == {Lines(ls) : ls \in SeqsUpTo(LineKinds, MaxLines)}
    IN  texts \cup {SubSeq(t, 1, Len(t) - 1) : t \in texts \ {<<>>}}

ManyCommands(n) == <<"a", COLON, NL>> \o Rep(<<TAB, "c", NL>>, n)
ManyRules(n) == Rep(<<"a", COLON, NL, TAB, "c", NL>>, n)
ManyDependencies(n, tail) == <<"a", COLON>> \o Rep(<<SP, "b">>, n) \o <<NL>> \o tail

ParseSources ==
    ShortFiles
    \cup {ManyCommands(n) : n \in 0..MaxCmdLines}
    \cup {ManyRules(n) : n \in 0..MaxRuleLines}
    \cup {ManyDependencies(n, tail) :
            n \in 0..MaxDepWords, tail \in {<<>>, <<NL>>, <<TAB, "c", NL>>}}

(* What lies behind the terminator: nothing mapped, or a newline and a NUL. *)
ParseBeyond == {<<>>, <<NL, NUL>>}

ParseInit ==
    /\ \E b \in ParseSources, g \in ParseBeyond :
          /\ mem = b \o <<NUL>> \o g
          /\ size = Len(b)
    /\ p = TokStart.p
    /\ line = TokStart.line
    /\ column = TokStart.column
    /\ tokens = TokStart.tokens
    /\ max_tokens = TokStart.max_tokens
    /\ read_hi = TokStart.read_hi
    /\ tok_pc = TokStart.pc
    /\ rules = <<>>
    /\ n_rules = 0
    /\ rules_capacity = 0
    /\ i = 0
    /\ parse_result = minimake_result_ok
    /\ parse_ub = {}
    /\ parse_pc = "tokenize"
    /\ BuildIdle

SpecParse == ParseInit /\ [][ParseNext]_vars


----------------------------------------------------------------------------
(* main: a rule file that minimake_parse has accepted, and the target asked
   for. *)

(* minimake_parse run to its end on a rule file of at most InitRulesCapacity
   rules of at most CommandsLen commands, where it stays inside its arrays. *)
RECURSIVE ParseRun(_, _)
ParseRun(toks, s) ==
    IF s.pc \in {"done", "crashed"} THEN s ELSE ParseRun(toks, ParseStep(toks, s, NoChoice))

(* The bytes a string view spans. *)
SvText(sv) == IF sv.size <= 0 THEN <<>> ELSE SubSeq(mem, sv.data, sv.data + sv.size - 1)

(* a.size == b.size && memcmp(a.data, b.data, b.size) == 0 *)
SameName(a, b) == a.size = b.size /\ SvText(a) = SvText(b)

----------------------------------------------------------------------------
(* minimake_resolve *)

InitChainCapacity == 16

(* Bound of the model: the chain of a cyclic rule table is followed up to
   this length. *)
MaxChain == 24

(* The inner loops of one pass of the outer loop (lines 562-585), from rule
   j on: the entries appended for the name, the dependencies of every rule
   whose target is the name, in declaration order. *)
RECURSIVE Appended_DropsLast(_, _)
Appended_DropsLast(name, j) ==
    IF j >= n_rules THEN <<>>
    ELSE LET recipe == rules[j + 1]
         IN  (IF SameName(recipe.target, name)
              THEN SubSeq(recipe.dependencies, 1, recipe.n_dependencies - 1)
              ELSE <<>>) \o Appended_DropsLast(name, j + 1)

RECURSIVE Appended(_, _)
Appended(name, j) ==
    IF j >= n_rules THEN <<>>
    ELSE LET recipe == rules[j + 1]
         IN  (IF SameName(recipe.target, name)
              THEN SubSeq(recipe.dependencies, 1, recipe.n_dependencies)
              ELSE <<>>) \o Appended(name, j + 1)

(* chain_capacity once n entries are in the chain: doubled whenever n_chain
   reached it (lines 572-573). *)
RECURSIVE GrownCapacity(_, _)
GrownCapacity(capacity, n) ==
    IF n >= capacity THEN GrownCapacity(capacity * 2, n) ELSE capacity

(* Lines 534-558. *)
ResolveBegin ==
    /\ resolve_pc = "idle"
    /\ parse_pc = "done" /\ parse_result.ok
    /\ chain' = <<target>>
    /\ chain_capacity' = InitChainCapacity
    /\ resolve_i' = 0
    /\ resolve_pc' = "loop"
    /\ UNCHANGED <<target, resolve_result, resolve_ub>>
    /\ UNCHANGED <<tokvars, parsevars, execvars>>

(* One pass of the outer loop (lines 561-586).  When the chain fills up, the
   new array is filled by a memcpy of the new capacity from the old array
   (line 579): it reads as many entries again behind the old allocation.
   The entries it reads there land in slots at and above n_chain, which are
   stored to before they are read; the read itself may end the process. *)
ResolveStep ==
    /\ resolve_pc = "loop"
    /\ resolve_i < Len(chain)
    /\ Len(chain) <= MaxChain
    /\ LET longer == chain \o Appended(chain[resolve_i + 1], 0)
           capacity == GrownCapacity(chain_capacity, Len(longer))
           grown == capacity > chain_capacity
           ub == IF grown
                 THEN {[kind |-> "chain", index |-> 2 * chain_capacity - 1,
                        limit |-> chain_capacity]}
                 ELSE {}
       IN  \E crash \in {c \in BOOLEAN : c => grown} :
              /\ resolve_ub' = resolve_ub \cup ub
              /\ IF crash
                 THEN /\ resolve_pc' = "crashed"
                      /\ UNCHANGED <<chain, chain_capacity, resolve_i>>
                 ELSE /\ chain' = longer
                      /\ chain_capacity' = capacity
                      /\ resolve_i' = resolve_i + 1
                      /\ resolve_pc' = "loop"
    /\ UNCHANGED <<target, resolve_result>>
    /\ UNCHANGED <<tokvars, parsevars, execvars>>

(* Lines 588-601: the outer loop's condition fails. *)
ResolveReturn ==
    /\ resolve_pc = "loop"
    /\ resolve_i >= Len(chain)
    /\ resolve_pc' = "done"
    /\ resolve_result' = minimake_result_ok
    /\ UNCHANGED <<target, chain, chain_capacity, resolve_i, resolve_ub>>
    /\ UNCHANGED <<tokvars, parsevars, execvars>>

----------------------------------------------------------------------------
(* minimake_make and minimake_execute_chain *)

PATH_MAX == 4096
ErrBufSize == 256

(* What stat() tells of a path: Missing (ENOENT), NoAccess (any other
   error), or the modification time in seconds, 1 or more. *)
Missing == 0
NoAccess == -1

(* Bounds of the model: the modification times on entry, and the clock. *)
MaxInitTime == 2
MaxTime == 3

FileStates == {NoAccess, Missing} \cup 1..MaxInitTime

Stat(f, sv) == IF SvText(sv) \in DOMAIN f THEN f[SvText(sv)] ELSE Missing

(* The lengths of the texts sprintf formats into ERR_BUF (lines 638, 645,
   678, 685), for a name or a command of n bytes; strerror(ENOENT) has 25
   characters. *)
CommandFailedLen(n) == 17 + n
NoRuleLen(n) == 18 + n
ShouldHaveCreatedLen(n) == 97 + n + n + 25
ErrorDeterminingLen(n) == 32 + n + 25

(* How a sprintf of n characters and a terminator into ERR_BUF ends: it
   fits, or it writes behind the buffer, where the process either goes on
   with the memory behind ERR_BUF overwritten or is ended. *)
SprintfEnds(n) == IF n + 1 <= ErrBufSize THEN {"fits"} ELSE {"overflow", "abort"}

(* minimake_execute_chain formats a message of n characters and leaves with
   `result`. *)
LeaveWithMessage(n, result) ==
    \E e \in SprintfEnds(n) :
        /\ exec_ub' = IF e = "fits" THEN exec_ub
                      ELSE exec_ub \cup {[kind |-> "ERR_BUF", index |-> n, limit |-> ErrBufSize]}
        /\ IF e = "abort"
           THEN exec_pc' = "crashed" /\ UNCHANGED exec_result
           ELSE exec_pc' = "done" /\ exec_result' = result

(* The rules (0-based) whose target is the name. *)
Matching(name) == {j \in 0..(n_rules - 1) : SameName(rules[j + 1].target, name)}

Min(S) == CHOOSE x \in S : \A y \in S : x <= y

(* The commands minimake_make has still to run for the name when its loops
   stand at rule pos.j, command pos.k (lines 624-628): the loop over the
   rules goes on behind a rule that matched. *)
Pending_Restarts(name, pos) ==
    {q \in UNION {{[j |-> j, k |-> k] : k \in 0..(rules[j + 1].n_commands - 1)} :
                    j \in Matching(name)} :
        q.j >= pos.j}

Pending(name, pos) ==
    {q \in UNION {{[j |-> j, k |-> k] : k \in 0..(rules[j + 1].n_commands - 1)} :
                    j \in Matching(name)} :
        q.j > pos.j \/ (q.j = pos.j /\ q.k >= pos.k)}

First(S) == CHOOSE q \in S : \A r \in S : q.j < r.j \/ (q.j = r.j /\ q.k <= r.k)

(* Lines 629-635: the buffer is replaced by a zeroed one only when it is too
   small, and the command is copied over its start without a terminator. *)
Copied(buffer, command) ==
    LET need == command.size + 1
        b == IF Len(buffer) < need THEN [x \in 1..need |-> NUL] ELSE buffer
    IN  [x \in 1..Len(b) |-> IF x <= command.size THEN mem[command.data + x - 1] ELSE b[x]]

(* The string system() is given: the buffer up to its first NUL. *)
CString(buffer) == SubSeq(buffer, 1, ScanTo(buffer, 1, {NUL}) - 1)

(* Line 710: st.st_mtim.tv_sec < dep_st.st_mtim.tv_sec *)
Older_OrEqual(st, dep_st) == st <= dep_st

Older(st, dep_st) == st < dep_st

(* Line 698 reads the size of dependency k of m->rules[i] with i the index
   into the chain, not of the rule found; behind the rule array it reads
   what the heap holds there. *)
SizeChecked(ci, k, heap) ==
    IF ci < Len(rules)
    THEN IF k < Len(rules[ci + 1].dependencies)
         THEN rules[ci + 1].dependencies[k + 1].size
         ELSE 0
    ELSE heap

(* The dependency loop of the staleness check (lines 697-720) for the rule
   rule_i and a target of modification time st: how it ends. *)
CheckDependencies(ci, rule_i, st, heap) ==
    LET rule == rules[rule_i + 1]
        K == 0..(rule.n_dependencies - 1)
        toolong == {k \in K : SizeChecked(ci, k, heap) >= PATH_MAX}
        unsatisfied == {k \in K : Stat(fs, rule.dependencies[k + 1]) \in {Missing, NoAccess}}
        newer == {k \in K : Older(st, Stat(fs, rule.dependencies[k + 1]))}
        stops == toolong \cup unsatisfied \cup newer
    IN  IF stops = {} THEN "fresh"
        ELSE IF Min(stops) \in toolong THEN "path too long"
        ELSE IF Min(stops) \in unsatisfied THEN "unsatisfied"
        ELSE "rebuild"

(* What the read behind the rule array may give: a fault, or a size below
   or not below PATH_MAX. *)
HeapReads(outside) ==
    IF outside
    THEN {[fault |-> TRUE, size |-> 0], [fault |-> FALSE, size |-> 0],
          [fault |-> FALSE, size |-> PATH_MAX]}
    ELSE {[fault |-> FALSE, size |-> 0]}

NoMake == [j |-> 0, k |-> 0, why |-> "none"]

(* main, lines 776-783: minimake_resolve has returned ok;
   minimake_execute_chain is entered (lines 652-658) on the file system as
   it is then.  A file's modification time is whatever was written to it:
   it may lie ahead of the clock. *)
ExecBegin ==
    /\ exec_pc = "idle"
    /\ resolve_pc = "done" /\ resolve_result.ok
    /\ \E f \in [{SvText(chain[c]) : c \in 1..Len(chain)} -> FileStates] :
          /\ fs0' = f
          /\ fs' = f
    /\ \E t \in 1..MaxInitTime : now' = t
    /\ exec_i' = Len(chain) - 1
    /\ cmd' = <<>>
    /\ make' = NoMake
    /\ log' = <<>>
    /\ exec_result' = minimake_result_ok
    /\ exec_ub' = {}
    /\ exec_pc' = "walk"
    /\ UNCHANGED <<tokvars, parsevars, resolvevars>>

(* One pass of the loop of minimake_execute_chain up to the call of
   minimake_make (lines 658-671 and 689-711). *)
ExecVisit ==
    /\ exec_pc = "walk"
    /\ exec_i > -1
    /\ LET name == chain[exec_i + 1]
           st == Stat(fs, name)
           next == /\ exec_i' = exec_i - 1
                   /\ UNCHANGED <<make, exec_result, exec_ub, exec_pc>>
           start(why) == /\ make' = [j |-> 0, k |-> 0, why |-> why]
                         /\ exec_pc' = "make"
                         /\ UNCHANGED <<exec_i, exec_result>>
           fail(text) == /\ exec_result' = Failure(Msg(text))
                         /\ exec_pc' = "done"
                         /\ UNCHANGED <<exec_i, make>>
       IN  IF name.size >= PATH_MAX
           THEN fail("path too long") /\ UNCHANGED exec_ub
           ELSE IF st = NoAccess
           THEN /\ LeaveWithMessage(ErrorDeterminingLen(name.size),
                                    Failure(Msg("error determining if exists")))
                /\ UNCHANGED <<exec_i, make>>
           ELSE IF st = Missing
           THEN start("missing") /\ UNCHANGED exec_ub
           ELSE IF Matching(name) = {}
           THEN next
           ELSE
           LET rule_i == Min(Matching(name))
               outside == exec_i >= Len(rules) /\ rules[rule_i + 1].n_dependencies > 0
               ub == IF outside
                     THEN {[kind |-> "rules", index |-> exec_i, limit |-> Len(rules)]}
                     ELSE {}
           IN  \E heap \in HeapReads(outside) :
                  LET end == CheckDependencies(exec_i, rule_i, st, heap.size)
                  IN  IF heap.fault
                      THEN /\ exec_pc' = "crashed"
                           /\ exec_ub' = exec_ub \cup ub
                           /\ UNCHANGED <<exec_i, make, exec_result>>
                      ELSE IF end = "fresh"
                      THEN /\ exec_i' = exec_i - 1
                           /\ exec_ub' = exec_ub \cup ub
                           /\ UNCHANGED <<make, exec_result, exec_pc>>
                      ELSE IF end = "rebuild"
                      THEN start("stale") /\ exec_ub' = exec_ub \cup ub
                      ELSE IF end = "unsatisfied"
                      THEN fail("dependency not satisfied") /\ exec_ub' = exec_ub \cup ub
                      ELSE fail("path too long") /\ exec_ub' = exec_ub \cup ub
    /\ UNCHANGED <<fs0, fs, now, cmd, log>>
    /\ UNCHANGED <<tokvars, parsevars, resolvevars>>

(* minimake_make runs one command (lines 628-640): system() blocks until the
   command has exited; while it runs the clock may pass a second, and the
   command may create its rule's target or set its modification time. *)
RunCommand ==
    /\ exec_pc = "make"
    /\ Pending(chain[exec_i + 1], make) # {}
    /\ LET name == chain[exec_i + 1]
           q == First(Pending(name, make))
           command == rules[q.j + 1].commands[q.k + 1]
           buffer == Copied(cmd, command)
       IN  /\ cmd' = buffer
           /\ \E status \in {0, 1}, touch \in BOOLEAN, tick \in {0, 1} :
                 /\ now + tick <= MaxTime
                 /\ now' = now + tick
                 /\ fs' = IF touch THEN [fs EXCEPT ![SvText(name)] = now + tick] ELSE fs
                 /\ log' = Append(log, [rule |-> q.j, k |-> q.k, text |-> CString(buffer),
                                        status |-> status, touch |-> touch,
                                        time |-> now + tick])
                 /\ IF status = 0
                    THEN /\ make' = [make EXCEPT !.j = q.j, !.k = q.k + 1]
                         /\ UNCHANGED <<exec_result, exec_ub, exec_pc>>
                    ELSE /\ LeaveWithMessage(CommandFailedLen(command.size),
                               Failure([Msg("command failed") EXCEPT
                                           !.start = command.data,
                                           !.end = command.data + command.size]))
                         /\ UNCHANGED make
    /\ UNCHANGED <<fs0, exec_i>>
    /\ UNCHANGED <<tokvars, parsevars, resolvevars>>

(* minimake_make returns without a failed command (lines 644-648) and the
   loop of minimake_execute_chain goes on behind the call (lines 672-682,
   712-721).  When the target is still missing, the failure is stored in
   make_result and the function leaves with `result`, which is ok. *)
MakeReturn ==
    /\ exec_pc = "make"
    /\ Pending(chain[exec_i + 1], make) = {}
    /\ LET name == chain[exec_i + 1]
       IN  IF Matching(name) = {}
           THEN /\ LeaveWithMessage(NoRuleLen(name.size),
                       Failure([Msg("no rule to make") EXCEPT
                                   !.start = name.data, !.end = name.data + name.size]))
                /\ UNCHANGED exec_i
           ELSE IF make.why = "missing" /\ Stat(fs, name) \in {Missing, NoAccess}
           THEN /\ LeaveWithMessage(ShouldHaveCreatedLen(name.size), exec_result)
                /\ UNCHANGED exec_i
           ELSE /\ exec_i' = exec_i - 1
                /\ exec_pc' = "walk"
                /\ UNCHANGED <<exec_result, exec_ub>>
    /\ make' = NoMake
    /\ UNCHANGED <<fs0, fs, now, cmd, log>>
    /\ UNCHANGED <<tokvars, parsevars, resolvevars>>

(* The loop's condition fails (line 658): minimake_execute_chain returns. *)
ExecReturn ==
    /\ exec_pc = "walk"
    /\ exec_i = -1
    /\ exec_pc' = "done"
    /\ UNCHANGED <<fs0, fs, now, exec_i, cmd, make, log, exec_result, exec_ub>>
    /\ UNCHANGED <<tokvars, parsevars, resolvevars>>

----------------------------------------------------------------------------
(* main from the return of minimake_parse on (lines 748-787): the rule files
   and the targets it is run on. *)

(* Bound of the model: the length of the longest command. *)
MaxCommandLen == 239

RECURSIVE Flat(_)
Flat(ss) == IF ss = <<>> THEN <<>> ELSE Head(ss) \o Flat(Tail(ss))

(* The text of a recipe: target, dependencies (bytes) and commands (byte
   sequences). *)
Recipe(t, deps, cmds) ==
    <<t, COLON>> \o Flat([d \in 1..Len(deps) |-> <<SP, deps[d]>>]) \o <<NL>>
        \o Flat([c \in 1..Len(cmds) |-> <<TAB>> \o cmds[c] \o <<NL>>])

X == <<"x">>
Y == <<"y">>

BuildFiles ==
    [ tree   |-> Recipe("a", <<"b">>, <<<<"x", "x">>, Y>>) \o Recipe("b", <<"c">>, <<X>>),
      twice  |-> Recipe("a", <<"b", "b">>, <<X>>) \o Recipe("b", <<"c", "d">>, <<Y>>),
      same   |-> Recipe("a", <<"b", "c">>, <<X>>) \o Recipe("a", <<"c">>, <<Y>>),
      deep   |-> Recipe("a", <<"b", "b", "b", "b", "b", "c">>, <<X>>) \o Recipe("c", <<"d">>, <<Y>>),
      long   |-> Recipe("a", <<>>, <<Rep(X, MaxCommandLen)>>),
      short  |-> Recipe("a", <<>>, <<Rep(X, MaxCommandLen - 1)>>),
      wide   |-> Recipe("a", Rep(<<"b">>, InitChainCapacity - 1), <<X>>),
      cycle  |-> Recipe("a", <<"b">>, <<X>>) \o Recipe("b", <<"a">>, <<Y>>),
      bare   |-> Recipe("a", <<"b">>, <<>>) ]

(* argv[1], or no argument: main then takes the first rule's target. *)
BuildInputs ==
    {[text |-> BuildFiles[f], arg |-> <<>>] : f \in DOMAIN BuildFiles}
    \cup {[text |-> BuildFiles.tree, arg |-> a] : a \in {<<"b">>, <<"q">>}}

BuildInit ==
    /\ \E in \in BuildInputs :
          LET m == in.text \o <<NUL>> \o in.arg \o <<NUL>>
              t == TokRun(m, TokStart)
              s == ParseRun(t.tokens, ParseStart)
          IN  /\ mem = m
              /\ size = Len(in.text)
              /\ p = t.p
              /\ line = t.line
              /\ column = t.column
              /\ tokens = t.tokens
              /\ max_tokens = t.max_tokens
              /\ read_hi = t.read_hi
              /\ tok_pc = t.pc
              /\ rules = s.rules
              /\ n_rules = s.n_rules
              /\ rules_capacity = s.rules_capacity
              /\ i = s.i
              /\ parse_result = s.result
              /\ parse_ub = s.ub
              /\ parse_pc = s.pc
              /\ target = IF in.arg = <<>> THEN s.rules[1].target
                          ELSE [data |-> Len(in.text) + 2, size |-> Len(in.arg)]
    /\ StagesIdle

BuildNext ==
    \/ ResolveBegin
    \/ ResolveStep
    \/ ResolveReturn
    \/ ExecBegin
    \/ ExecVisit
    \/ RunCommand
    \/ MakeReturn
    \/ ExecReturn

SpecBuild == BuildInit /\ [][BuildNext]_vars

----------------------------------------------------------------------------
(* The recipe grammar on the token kinds, read line by line: a line is the
   run of tokens up to a newline token.
     recipe = WORD COLON WORD* NEWLINE (COMMAND NEWLINE)*
   with blank lines between recipes and the last command's newline optional. *)

Type(j) == tokens[j].type
LineStart(j) == j = 1 \/ Type(j - 1) = TOK_NEWLINE
IsTarget(j) == Type(j) = TOK_WORD /\ LineStart(j)
IsDependency(j) == Type(j) = TOK_WORD /\ ~LineStart(j)

TokenConforms(j) ==
    IF Type(j) = TOK_WORD
    THEN LineStart(j) \/ Type(j - 1) = TOK_COLON \/ IsDependency(j - 1)
    ELSE IF Type(j) = TOK_COLON
    THEN j > 1 /\ IsTarget(j - 1)
    ELSE IF Type(j) = TOK_COMMAND
    THEN LineStart(j) /\ j > 2 /\ Type(j - 2) # TOK_NEWLINE
    ELSE LineStart(j) \/ ~IsTarget(j - 1)

ConformsToGrammar ==
    /\ \A j \in 1..Len(tokens) : TokenConforms(j)
    /\ tokens # <<>> => Type(Len(tokens)) \in {TOK_NEWLINE, TOK_COMMAND}

(* A recipe without command lines that is followed by a blank line: the
   case minimake_parse documents as the "expected command(s)" error. *)
BlankAfterHeader ==
    \E j \in 2..(Len(tokens) - 1) :
        /\ Type(j) = TOK_NEWLINE /\ Type(j + 1) = TOK_NEWLINE
        /\ Type(j - 1) \in {TOK_COLON, TOK_WORD}

Indices == [j \in 1..Len(tokens) |-> j]
Targets == SelectSeq(Indices, IsTarget)
Sv(j) == [data |-> tokens[j].start, size |-> tokens[j].end - tokens[j].start]

(* The tokens of the k-th recipe: from its target to the next target. *)
RecipeTokens(k) ==
    LET from == Targets[k]
        to == IF k < Len(Targets) THEN Targets[k + 1] - 1 ELSE Len(tokens)
    IN  SubSeq(Indices, from, to)

IsCommand(j) == Type(j) = TOK_COMMAND

(* The rule the grammar gives the k-th recipe. *)
RecipeRule(k) ==
    LET deps == SelectSeq(RecipeTokens(k), IsDependency)
        cmds == SelectSeq(RecipeTokens(k), IsCommand)
    IN  [target |-> Sv(Targets[k]),
         dependencies |-> [d \in 1..Len(deps) |-> Sv(deps[d])],
         n_dependencies |-> Len(deps),
         commands |-> [c \in 1..Len(cmds) |-> Sv(cmds[c])],
         n_commands |-> Len(cmds)]

(* No recipe is over the documented caps (64 dependencies, 128 commands). *)
WithinCaps ==
    \A k \in 1..Len(Targets) :
        /\ Len(SelectSeq(RecipeTokens(k), IsDependency)) <= MaxDependencies
        /\ Len(SelectSeq(RecipeTokens(k), IsCommand)) <= MaxCommands

ParseOver == parse_pc \in {"done", "crashed"} /\ tok_pc = "ok"

RuleTableIsGrammar ==
    /\ parse_pc = "done"
    /\ parse_result.ok
    /\ n_rules = Len(Targets)
    /\ \A k \in 1..Len(Targets) : rules[k] = RecipeRule(k)

(* C7: for every token sequence that conforms to the recipe grammar,
   minimake_parse returns ok and the rule table holds exactly one rule per
   recipe in declaration order, each with the recipe's target, dependencies
   and commands in declared order.  (Left out here, as documented
   rejections: a command-less recipe followed by a blank line, and a recipe
   over the caps on dependencies and commands.) *)
C7_ParseAcceptsGrammar ==
    (ParseOver /\ ConformsToGrammar /\ ~BlankAfterHeader /\ WithinCaps)
        => RuleTableIsGrammar

(* C8 as stated: every rule of a successfully parsed rule table has at least
   one command. *)
C8_EveryRuleHasCommand ==
    (parse_pc = "done" /\ parse_result.ok) =>
        \A k \in 1..n_rules : rules[k].n_commands >= 1

(* The recipe header that a pass of the parser's loop starts on: its target
   at token t (0-based), the first token behind its dependencies at e. *)
HeaderAt ==
    LET t == SkipNewlines(tokens, i)
        e == CHOOSE r \in (t + 2)..Max(t + 2, Len(tokens)) :
                /\ ~(Tok(tokens, r).type = TOK_WORD /\ r < Len(tokens))
                /\ \A k \in (t + 2)..(r - 1) : Tok(tokens, k).type = TOK_WORD
    IN  [t |-> t, e |-> e,
         ok |-> /\ t + 2 < Len(tokens)
                /\ Tok(tokens, t).type = TOK_WORD
                /\ Tok(tokens, t + 1).type = TOK_COLON
                /\ e < Len(tokens)
                /\ Tok(tokens, e).type = TOK_NEWLINE]

ExpectedCommands(result) ==
    ~result.ok /\ result.message.expected = "command(s)"

(* C8, amended: once minimake_parse is past a rule's dependency line it
   rejects the rule with "expected command(s)" exactly when the next token is
   another newline (a blank line); when the next token is a command, the next
   rule's target or the end of the input the rule is kept, in the last two
   cases with no command. *)
C8_RejectsOnlyBlankLine ==
    [][(/\ parse_pc = "loop"
        /\ i < Len(tokens)
        /\ HeaderAt.ok
        /\ parse_pc' # "crashed"
        /\ parse_result'.message.text # "too many dependencies")
       => /\ ExpectedCommands(parse_result') <=>
                (HeaderAt.e + 1 < Len(tokens) /\ Tok(tokens, HeaderAt.e + 1).type = TOK_NEWLINE)
          /\ ~ExpectedCommands(parse_result') =>
                (parse_pc' = "commands" /\ i' = HeaderAt.e + 1)]_vars

(* A rule table parsed successfully whose first rule has no command and is
   followed by a second rule. *)
C8_Witness ==
    /\ parse_pc = "done" /\ parse_result.ok
    /\ n_rules = 2
    /\ rules[1].n_commands = 0

(* C9: the per-rule command cap is 128: no store of a command lands outside
   the rule's own command storage, every command of a stored rule is in that
   storage in order, and only a rule with more than 128 command lines fails
   with "too many commands". *)
C9_CommandsStayInRule ==
    /\ \A u \in parse_ub : u.kind # "command"
    /\ \A k \in 1..n_rules : Len(rules[k].commands) = rules[k].n_commands
    /\ (parse_pc = "crashed" /\ tok_pc = "ok") => \E u \in parse_ub : u.kind = "rule"

(* C10: minimake_tokenize never fails and never reads a byte behind the
   terminator; a last line that is a command without a newline yields a
   Command token that ends at the end of the input. *)
LastLineIsCommand ==
    \E t \in 1..size :
        /\ mem[t] = TAB
        /\ t = 1 \/ mem[t - 1] = NL
        /\ \A k \in t..size : mem[k] # NL

C10_TokenizeStaysInBuffer ==
    /\ tok_pc # "fault"
    /\ read_hi <= size + 1
    /\ (tok_pc = "ok" /\ LastLineIsCommand) =>
          /\ tokens # <<>>
          /\ tokens[Len(tokens)].type = TOK_COMMAND
          /\ tokens[Len(tokens)].end = size + 1

----------------------------------------------------------------------------
(* The rule table by names, and the claims on the resolver and the executor. *)

Names == {SvText(chain[c]) : c \in 1..Len(chain)}
RulesOf(text) == {j \in 0..(n_rules - 1) : SvText(rules[j + 1].target) = text}
TargetOf(j) == SvText(rules[j + 1].target)
DepNames(j) == [d \in 1..rules[j + 1].n_dependencies |-> SvText(rules[j + 1].dependencies[d])]
DepsOf(text) == UNION {{DepNames(j)[d] : d \in DOMAIN DepNames(j)} : j \in RulesOf(text)}

(* The names reachable from the names S over at most n dependency edges. *)
RECURSIVE Below(_, _)
Below(S, n) == IF n = 0 THEN S ELSE Below(S \cup UNION {DepsOf(x) : x \in S}, n - 1)

DependsOn(text) == Below(DepsOf(text), n_rules)
Acyclic == \A j \in 0..(n_rules - 1) : TargetOf(j) \notin DependsOn(TargetOf(j))

(* The breadth-first reference expansion: for k = 1, 2, ... the dependencies
   of every rule whose target is names[k], in declaration order, are put at
   the end. *)
RECURSIVE DepsInOrder(_, _)
DepsInOrder(text, j) ==
    IF j >= n_rules THEN <<>>
    ELSE (IF TargetOf(j) = text THEN DepNames(j) ELSE <<>>) \o DepsInOrder(text, j + 1)

RECURSIVE Expansion(_, _)
Expansion(names, k) ==
    IF k > Len(names) THEN names
    ELSE Expansion(names \o DepsInOrder(names[k], 0), k + 1)

ChainNames == [c \in 1..Len(chain) |-> SvText(chain[c])]

Time(f, text) == IF text \in DOMAIN f THEN f[text] ELSE Missing

(* Every name of the chain exists and no target of a rule is older than a
   dependency of the rule. *)
UpToDate(f) ==
    /\ \A x \in Names : Time(f, x) >= 1
    /\ \A j \in 0..(n_rules - 1) :
          TargetOf(j) \in Names =>
              \A d \in DOMAIN DepNames(j) : Time(f, TargetOf(j)) >= Time(f, DepNames(j)[d])

(* The pairs of a target and a dependency of one of its rules that is newer. *)
StalePairs(f) ==
    {pr \in Names \X Names :
        /\ pr[2] \in DepsOf(pr[1])
        /\ Time(f, pr[2]) > Time(f, pr[1])}

(* minimake_execute_chain was entered on a file system that was up to date
   until the modification time of D was advanced. *)
Touched(D) ==
    /\ exec_pc # "idle"
    /\ \A x \in Names : Time(fs0, x) >= 1
    /\ StalePairs(fs0) # {}
    /\ \A pr \in StalePairs(fs0) : pr[2] = D
    /\ \E v \in 1..MaxInitTime : UpToDate([fs0 EXCEPT ![D] = v])

Ran == [e \in 1..Len(log) |-> <<log[e].rule, log[e].k>>]
CommandsOf(j) == [c \in 1..rules[j + 1].n_commands |-> <<j, c - 1>>]
IsPrefix(s, t) == Len(s) <= Len(t) /\ s = SubSeq(t, 1, Len(s))
ExecOver == exec_pc \in {"done", "crashed"}
(* Every command run so far has exited with status 0 and has created or
   touched the target of its rule. *)
CommandsBuild == \A e \in 1..Len(log) : log[e].status = 0 /\ log[e].touch

(* C1: whenever minimake_execute_chain returns a successful result, every
   name in the chain exists on disk: a missing target whose commands all
   succeed without creating it makes the result a failure. *)
C1_SuccessMeansAllExist ==
    (exec_pc = "done" /\ exec_result.ok) => \A x \in Names : Time(fs, x) >= 1

(* C2: a command that exits with a non-zero status is the last one run: the
   build ends there with a result that is not ok and whose message holds the
   text of that command, the rule's command as it was given to the shell. *)
C2_FailedCommandEndsBuild ==
    \A e \in 1..Len(log) :
        log[e].status # 0 =>
            /\ e = Len(log)
            /\ exec_pc = "done"
            /\ ~exec_result.ok
            /\ exec_result.message.text = "command failed"
            /\ SubSeq(mem, exec_result.message.start, exec_result.message.end - 1)
                  = SvText(rules[log[e].rule + 1].commands[log[e].k + 1])
            /\ log[e].text = SvText(rules[log[e].rule + 1].commands[log[e].k + 1])

(* C3: on an acyclic rule table, when every name of the chain exists and no
   target is older than one of its dependencies, minimake_execute_chain runs
   no command and returns success. *)
C3_UpToDateRunsNothing ==
    (exec_pc # "idle" /\ Acyclic /\ UpToDate(fs0)) =>
        /\ log = <<>>
        /\ exec_pc # "crashed"
        /\ exec_pc = "done" => exec_result.ok

(* C4 as stated: from an up-to-date state in which one dependency D was
   advanced past the target T whose rule lists it, and with commands that
   succeed and touch their target, the commands of that rule are run exactly
   once and no command of another rule is run. *)
C4_RebuildsOwningRuleOnly ==
    \A T \in Names, D \in Names :
        (Touched(D) /\ StalePairs(fs0) = {<<T, D>>} /\ CommandsBuild) =>
            LET owner == Min({j \in RulesOf(T) : \E d \in DOMAIN DepNames(j) : DepNames(j)[d] = D})
            IN  /\ IsPrefix(Ran, CommandsOf(owner))
                /\ ExecOver => Ran = CommandsOf(owner)

(* C4, amended: from an up-to-date state in which one dependency D was
   advanced, and with commands that change no file but their own target,
   minimake_execute_chain runs commands only of rules whose target depends on
   D, directly or through other targets (the rebuilt target makes the targets
   above it stale in turn); and when it returns success, system() has been
   called for every command of the first rule of each target that lists D
   there and was older than D. *)
C4_RebuildsOnlyAbove ==
    \A D \in Names :
        Touched(D) =>
            /\ \A e \in 1..Len(log) : D \in DependsOn(TargetOf(log[e].rule))
            /\ (exec_pc = "done" /\ exec_result.ok) =>
                  \A T \in Names :
                      (/\ RulesOf(T) # {}
                       /\ \E d \in DOMAIN DepNames(Min(RulesOf(T))) :
                             DepNames(Min(RulesOf(T)))[d] = D
                       /\ Time(fs0, D) > Time(fs0, T))
                      => \A c \in 1..Len(CommandsOf(Min(RulesOf(T)))) :
                            \E e \in 1..Len(Ran) : Ran[e] = CommandsOf(Min(RulesOf(T)))[c]

(* The rebuild of the touched dependency's target has made the target above
   it stale: commands of two targets have run and the build has succeeded. *)
C4_Witness ==
    /\ exec_pc = "done" /\ exec_result.ok
    /\ \E D \in Names : Touched(D)
    /\ \E e, f \in 1..Len(log) : TargetOf(log[e].rule) # TargetOf(log[f].rule)

(* C5: on an acyclic rule table minimake_resolve returns ok for every
   requested name, and the chain is the breadth-first reference expansion,
   duplicates kept. *)
C5_ResolveIsBreadthFirst ==
    Acyclic =>
        /\ resolve_pc # "crashed"
        /\ resolve_pc = "done" =>
              /\ resolve_result.ok
              /\ ChainNames = Expansion(<<SvText(target)>>, 1)

(* C6: every command run belongs to the first rule, in declaration order,
   that declares its target. *)
C6_FirstRuleOnly ==
    \A e \in 1..Len(log) : log[e].rule = Min(RulesOf(TargetOf(log[e].rule)))

----------------------------------------------------------------------------
(* The reference scanner on the bytes of the buffer, and the claims on the
   tokens. *)

Buffer == SubSeq(mem, 1, size)

(* The first index from q on whose byte is in `stop`, or the index behind
   the last byte. *)
RefEnd(b, q, stop) ==
    IF \E r \in q..Len(b) : b[r] \in stop
    THEN Min({r \in q..Len(b) : b[r] \in stop})
    ELSE Len(b) + 1

RefToken(type, from, to) == [type |-> type, start |-> from, end |-> to]

RECURSIVE RefScan(_, _)
RefScan(b, q) ==
    IF q > Len(b) THEN <<>>
    ELSE IF b[q] = NL THEN <<RefToken(TOK_NEWLINE, q, q + 1)>> \o RefScan(b, q + 1)
    ELSE IF b[q] = COLON THEN <<RefToken(TOK_COLON, q, q + 1)>> \o RefScan(b, q + 1)
    ELSE IF b[q] = HASH THEN RefScan(b, RefEnd(b, q, {NL}))
    ELSE IF b[q] = SP THEN RefScan(b, q + 1)
    ELSE IF b[q] = TAB
    THEN <<RefToken(TOK_COMMAND, q + 1, RefEnd(b, q, {NL}))>> \o RefScan(b, RefEnd(b, q, {NL}))
    ELSE <<RefToken(TOK_WORD, q, RefEnd(b, q, {SP, TAB, NL, COLON}))>>
            \o RefScan(b, RefEnd(b, q, {SP, TAB, NL, COLON}))

KindsAndSpans ==
    [j \in 1..Len(tokens) |-> RefToken(tokens[j].type, tokens[j].start, tokens[j].end)]

(* C11: when minimake_tokenize is over it has returned ok, and the kinds and
   spans of its tokens are those of the reference scanner on the buffer. *)
C11_TokensAreReference ==
    tok_pc # "scan" => (tok_pc = "ok" /\ KindsAndSpans = RefScan(Buffer, 1))

(* The naive position of byte k: newlines before it, bytes since the last. *)
RefLine(k) == 1 + Cardinality({r \in 1..(k - 1) : mem[r] = NL})
RefColumn(k) ==
    IF \E r \in 1..(k - 1) : mem[r] = NL
    THEN k - (CHOOSE r \in 1..(k - 1) : mem[r] = NL /\ \A t \in (r + 1)..(k - 1) : mem[t] # NL)
    ELSE k

(* C12: every token with a span of at least one byte inside the buffer
   records the line and the column of the first byte of its span. *)
C12_TokensRecordPosition ==
    \A j \in 1..Len(tokens) :
        (tokens[j].start < tokens[j].end /\ tokens[j].end <= size + 1) =>
            /\ tokens[j].line = RefLine(tokens[j].start)
            /\ tokens[j].column = RefColumn(tokens[j].start)

(* C16: minimake_parse stores no rule at an index that is not below the
   capacity of the rule table, and every rule it has counted is a rule it
   has parsed: none is lost when the table grows. *)
C16_RuleTableGrowsBeforeFull ==
    /\ \A u \in parse_ub : u.kind # "rule"
    /\ \A k \in 1..n_rules : k <= Len(rules) /\ rules[k].target.size > 0

(* The chain entries (1-based) minimake_execute_chain has still to examine
   are those up to exec_i + 1: it walks from the last entry to the first. *)
Examined == {c \in 1..Len(chain) : c > exec_i + 1}

(* C13: for an acyclic rule table every dependency of a rule whose target is
   chain[i] occurs in the resolved chain at an index greater than i, so the
   walk from the last index to the first has examined it before the target;
   when commands change no file but their own target, every dependency of
   the entry whose staleness is checked exists, and the "dependency not
   satisfied" error is never returned. *)
C13_DependenciesComeFirst ==
    /\ (resolve_pc = "done" /\ Acyclic) =>
          \A c \in 1..Len(chain) : \A d \in DepsOf(ChainNames[c]) :
              \E e \in (c + 1)..Len(chain) : ChainNames[e] = d
    /\ (exec_pc \in {"walk", "make"} /\ exec_i >= 0) =>
          \A d \in DepsOf(ChainNames[exec_i + 1]) :
              /\ \E e \in Examined : ChainNames[e] = d
              /\ Time(fs, d) >= 1
    /\ exec_result.message.text # "dependency not satisfied"

(* A dependency that did not exist has been built by its rule, and the
   staleness of the target above it, which did exist, has been checked. *)
C13_Witness ==
    /\ exec_pc = "done" /\ exec_result.ok /\ exec_i = -1
    /\ \E c \in 1..Len(chain) : \E d \in DepsOf(ChainNames[c]) :
          /\ Time(fs0, ChainNames[c]) >= 1
          /\ Time(fs0, d) = Missing
          /\ Time(fs, d) >= 1

(* The commands of one rule have been run in declaration order, none of
   them twice. *)
InDeclarationOrder ==
    \A e1 \in 1..Len(log) : \A e2 \in (e1 + 1)..Len(log) :
        log[e1].rule = log[e2].rule => log[e1].k < log[e2].k

(* No file named in the chain carried, when minimake_execute_chain was
   entered, a modification time later than the time a command has set. *)
NoFileAhead ==
    \A e \in 1..Len(log) : \A x \in Names : Time(fs0, x) <= log[e].time

(* C14 as stated: within one call of minimake_execute_chain over the chain
   of an acyclic rule table, where every command succeeds and creates its
   rule's target or sets its modification time to the current time and
   touches no other file, each command of each rule is executed at most
   once, in declaration order, even when the target occurs several times in
   the chain. *)
C14_EachCommandOnce ==
    (Acyclic /\ CommandsBuild) => InDeclarationOrder

(* C14, amended: the same, for a file system in which no file named in the
   chain is dated later than the time the commands set: a target that
   occurs several times in the chain and stays older than a dependency
   dated ahead of the clock is rebuilt at each of its occurrences. *)
C14_EachCommandOnceUnlessAhead ==
    (Acyclic /\ CommandsBuild /\ NoFileAhead) => InDeclarationOrder

(* A target that occurs twice in the chain was missing or stale, its rule's
   commands have run, and the walk has passed both occurrences. *)
C14_Witness ==
    /\ exec_pc = "done" /\ exec_result.ok /\ exec_i = -1
    /\ CommandsBuild /\ NoFileAhead
    /\ \E c1 \in 1..Len(chain) : \E c2 \in (c1 + 1)..Len(chain) :
          /\ ChainNames[c1] = ChainNames[c2]
          /\ \E e \in 1..Len(log) : log[e].rule \in RulesOf(ChainNames[c1])

(* A rule reachable from the requested target depends on itself, directly
   or through other rules. *)
CycleReachable ==
    \E x \in Below({SvText(target)}, n_rules) : x \in DependsOn(x)

(* The scan index of minimake_resolve has reached the end of the chain. *)
ScanAtEnd == resolve_i >= Len(chain)

(* C15: minimake_resolve terminates, its scan index at the end of the chain,
   exactly when no rule reachable from the requested target depends on
   itself; with such a cycle the scan index never reaches the end of the
   growing chain; and without a cycle it ends in no other way than by
   returning ok (memory being there). *)
C15_ResolveEndsIffAcyclic ==
    /\ resolve_pc = "done" => (~CycleReachable /\ ScanAtEnd /\ resolve_result.ok)
    /\ (resolve_pc = "loop" /\ CycleReachable) => ~ScanAtEnd
    /\ (resolve_pc = "loop" /\ ~CycleReachable) =>
          IsPrefix(ChainNames, Expansion(<<SvText(target)>>, 1))
    /\ ~CycleReachable => resolve_pc # "crashed"

====
